---------------------------- MODULE Spec2Model ----------------------------
(***************************************************************************)
(* Model of scripts/migration/fargate-to-k8s.py: the conversion of a       *)
(* Fargate task definition and service definition into Kubernetes          *)
(* manifests.  Python dicts are functions with string domains, a key is    *)
(* absent when it is not in the DOMAIN; Python lists are sequences.        *)
(***************************************************************************)
EXTENDS Integers, Sequences, FiniteSets, TLC

VARIABLES
    task_def,    \* the parsed task definition (sys.argv[1])
    service,     \* the parsed service definition (sys.argv[2])
    pc,          \* position of main()
    app_name,    \* main's app_name
    output_dir,  \* TRUE once k8s-manifests/ has been created
    manifests,   \* main's list of (kind, manifest) pairs
    files,       \* the files written so far, in order: [name, docs]
    error        \* the uncaught exception that ended the run, "" if none

vars == <<task_def, service, pc, app_name, output_dir, manifests, files, error>>

-----------------------------------------------------------------------------
(* Bounds of the input space *)

MaxContainers == 2
MaxCpuUnits == 2048
MaxMemory == 1100
MaxDesiredCount == 60

-----------------------------------------------------------------------------
(* Python values *)

None == [none |-> TRUE]

EmptyDict == <<>>

\* dict.get(key, default)
Get(d, key, default) == IF key \in DOMAIN d THEN d[key] ELSE default

\* the result of a call that raised an exception
Raise(exc) == [raised |-> exc]

IsRaised(r) == "raised" \in DOMAIN r

\* int(a / b) for integers a and b > 0: the quotient truncated toward zero
TruncDiv(a, b) == IF a >= 0 THEN a \div b ELSE -((-a) \div b)

\* variant: round(x * 0.8), to the nearest integer instead of truncated
Int80PercentRounded(x) == (x * 8 + 5) \div 10

\* int(x * 0.8) for an integer x: the double nearest 0.8 is just above 4/5,
\* so the product never falls below an exact integer multiple
Int80Percent(x) == TruncDiv(x * 4, 5)

\* str.upper() on the protocol names
Upper(s) ==
    CASE s = "tcp" -> "TCP"
      [] s = "udp" -> "UDP"
      [] OTHER -> s

-----------------------------------------------------------------------------
(* Unit conversion and resources *)

convert_memory_to_mi(memory_mb) == ToString(memory_mb) \o "Mi"

\* variant: one vCPU taken to be 1000 units
convert_cpu_to_millicores_decimal(cpu_units) ==
    ToString(TruncDiv(cpu_units * 1000, 1000)) \o "m"

convert_cpu_to_millicores(cpu_units) ==
    ToString(TruncDiv(cpu_units * 1000, 1024)) \o "m"

\* variant: the reduced quantity stored under limits, the raw one under requests
create_resource_requirements_swapped(container) ==
    LET mem == IF "memory" \in DOMAIN container
               THEN [requests |-> [memory |-> convert_memory_to_mi(container.memory)],
                     limits |-> [memory |->
                         convert_memory_to_mi(Int80Percent(container.memory))]]
               ELSE [limits |-> EmptyDict, requests |-> EmptyDict]
        cpu == IF "cpu" \in DOMAIN container
               THEN [requests |-> [cpu |-> convert_cpu_to_millicores(container.cpu)],
                     limits |-> [cpu |->
                         convert_cpu_to_millicores(Int80Percent(container.cpu))]]
               ELSE [limits |-> EmptyDict, requests |-> EmptyDict]
    IN  [requests |-> mem.requests @@ cpu.requests,
         limits |-> mem.limits @@ cpu.limits]

create_resource_requirements(container) ==
    LET mem == IF "memory" \in DOMAIN container
               THEN [limits |-> [memory |-> convert_memory_to_mi(container.memory)],
                     requests |-> [memory |->
                         convert_memory_to_mi(Int80Percent(container.memory))]]
               ELSE [limits |-> EmptyDict, requests |-> EmptyDict]
        cpu == IF "cpu" \in DOMAIN container
               THEN [limits |-> [cpu |-> convert_cpu_to_millicores(container.cpu)],
                     requests |-> [cpu |->
                         convert_cpu_to_millicores(Int80Percent(container.cpu))]]
               ELSE [limits |-> EmptyDict, requests |-> EmptyDict]
    IN  [requests |-> mem.requests @@ cpu.requests,
         limits |-> mem.limits @@ cpu.limits]

-----------------------------------------------------------------------------
(* Environment variables *)

convert_environment_variables(container, name) ==
    LET environment == Get(container, "environment", <<>>)
        secrets == Get(container, "secrets", <<>>)
    IN  [i \in 1..Len(environment) |->
            [name |-> environment[i].name, value |-> environment[i].value]]
        \o
        [i \in 1..Len(secrets) |->
            [name |-> secrets[i].name,
             valueFrom |-> [secretKeyRef |->
                 [name |-> name \o "-secrets", key |-> secrets[i].name]]]]

-----------------------------------------------------------------------------
(* Deployment *)

container_port(port_mapping) ==
    [name |-> "port-" \o ToString(port_mapping.containerPort),
     containerPort |-> port_mapping.containerPort,
     protocol |-> Upper(Get(port_mapping, "protocol", "TCP"))]

livenessProbe(container) ==
    LET health_check == container.healthCheck
        command == Get(health_check, "command", <<"/health">>)
        mappings == Get(container, "portMappings", <<[containerPort |-> 80]>>)
    IN  IF command = <<>> THEN Raise("IndexError")
        ELSE IF mappings = <<>> THEN Raise("IndexError")
        ELSE [httpGet |-> [path |-> command[1],
                           port |-> mappings[1].containerPort],
              initialDelaySeconds |-> Get(health_check, "startPeriod", 30),
              periodSeconds |-> Get(health_check, "interval", 30),
              timeoutSeconds |-> Get(health_check, "timeout", 5),
              failureThreshold |-> Get(health_check, "retries", 3)]

\* variant: missing fields defaulted with .get() instead of raising
k8s_container_lenient(container, name) ==
    [name |-> Get(container, "name", name),
     image |-> Get(container, "image", ""),
     imagePullPolicy |-> "IfNotPresent",
     resources |-> create_resource_requirements(container)]

\* one iteration of create_deployment's loop over containerDefinitions
k8s_container(container, name) ==
    IF "name" \notin DOMAIN container THEN Raise("KeyError")
    ELSE IF "image" \notin DOMAIN container THEN Raise("KeyError")
    ELSE IF /\ "portMappings" \in DOMAIN container
            /\ \E i \in 1..Len(container.portMappings) :
                  "containerPort" \notin DOMAIN container.portMappings[i]
         THEN Raise("KeyError")
    ELSE LET probe == IF "healthCheck" \in DOMAIN container
                      THEN livenessProbe(container) ELSE None
             env_vars == convert_environment_variables(container, name)
         IN  IF IsRaised(probe) THEN probe
             ELSE [name |-> container.name,
                   image |-> container.image,
                   imagePullPolicy |-> "IfNotPresent",
                   resources |-> create_resource_requirements(container)]
                  @@ (IF "portMappings" \in DOMAIN container
                      THEN [ports |-> [i \in 1..Len(container.portMappings) |->
                                 container_port(container.portMappings[i])]]
                      ELSE EmptyDict)
                  @@ (IF env_vars # <<>> THEN [env |-> env_vars] ELSE EmptyDict)
                  @@ (IF probe # None THEN [livenessProbe |-> probe] ELSE EmptyDict)
                  @@ (IF "entryPoint" \in DOMAIN container
                      THEN [command |-> container.entryPoint]
                      ELSE IF "command" \in DOMAIN container
                      THEN [command |-> container.command]
                      ELSE EmptyDict)

create_deployment(td, service_def, name) ==
    LET defs == td.containerDefinitions
        built == [i \in 1..Len(defs) |-> k8s_container(defs[i], name)]
        failed == {i \in 1..Len(defs) : IsRaised(built[i])}
    IN  IF failed # {}
        THEN built[CHOOSE i \in failed : \A j \in failed : i <= j]
        ELSE [apiVersion |-> "apps/v1",
              kind |-> "Deployment",
              metadata |-> [name |-> name,
                            labels |-> [app |-> name]
                                       @@ ("managed-by" :> "cygni")
                                       @@ ("migrated-from" :> "fargate")],
              spec |-> [replicas |-> Get(service_def, "desiredCount", 2),
                        selector |-> [matchLabels |-> [app |-> name]],
                        template |->
                            [metadata |-> [labels |-> [app |-> name]],
                             spec |-> [containers |-> built,
                                       restartPolicy |-> "Always"]
                                      @@ (IF "taskRoleArn" \in DOMAIN td
                                          THEN [serviceAccountName |-> name]
                                          ELSE EmptyDict)],
                        strategy |-> [type |-> "RollingUpdate",
                                      rollingUpdate |-> [maxSurge |-> 1,
                                                         maxUnavailable |-> 0]]]]


-----------------------------------------------------------------------------
(* Service, Ingress, ServiceAccount, HorizontalPodAutoscaler *)

\* the labels every manifest but the Deployment carries
Labels(name) == [app |-> name] @@ ("managed-by" :> "cygni")

service_port(port_mapping) ==
    [name |-> "port-" \o ToString(port_mapping.containerPort),
     port |-> port_mapping.containerPort,
     targetPort |-> port_mapping.containerPort,
     protocol |-> Upper(Get(port_mapping, "protocol", "TCP"))]

RECURSIVE all_service_ports(_)
all_service_ports(defs) ==
    IF defs = <<>> THEN <<>>
    ELSE LET mappings == Get(Head(defs), "portMappings", <<>>)
         IN  [i \in 1..Len(mappings) |-> service_port(mappings[i])]
             \o all_service_ports(Tail(defs))

create_service(td, name) ==
    LET collected == all_service_ports(td.containerDefinitions)
        ports == IF collected = <<>>
                 THEN <<[name |-> "http", port |-> 80, targetPort |-> 80,
                         protocol |-> "TCP"]>>
                 ELSE collected
    IN  [apiVersion |-> "v1",
         kind |-> "Service",
         metadata |-> [name |-> name, labels |-> Labels(name)],
         spec |-> [type |-> "ClusterIP",
                   selector |-> [app |-> name],
                   ports |-> ports]]

\* variant: triggered by the presence of the loadBalancers key alone
create_ingress_when_key_present(service_def, name, service_ports) ==
    IF "loadBalancers" \notin DOMAIN service_def
    THEN None
    ELSE [apiVersion |-> "networking.k8s.io/v1",
          kind |-> "Ingress",
          metadata |-> [name |-> name, labels |-> Labels(name)],
          spec |-> [rules |-> <<[http |-> [paths |-> <<
              [path |-> "/",
               pathType |-> "Prefix",
               backend |-> [service |->
                   [name |-> name,
                    port |-> [number |-> service_ports[1].port]]]]>>]]>>]]

create_ingress(service_def, name, service_ports) ==
    IF \/ "loadBalancers" \notin DOMAIN service_def
       \/ service_def.loadBalancers = <<>>
    THEN None
    ELSE LET load_balancer == service_def.loadBalancers[1]
             annotations ==
                 ("kubernetes.io/ingress.class" :> "alb")
                 @@ ("alb.ingress.kubernetes.io/scheme" :> "internet-facing")
                 @@ ("alb.ingress.kubernetes.io/target-type" :> "ip")
                 @@ ("alb.ingress.kubernetes.io/healthcheck-path" :> "/health")
             ssl == IF "certificateArn" \in DOMAIN load_balancer
                    THEN ("alb.ingress.kubernetes.io/certificate-arn"
                              :> load_balancer.certificateArn)
                         @@ ("alb.ingress.kubernetes.io/ssl-redirect" :> "443")
                    ELSE EmptyDict
         IN  [apiVersion |-> "networking.k8s.io/v1",
              kind |-> "Ingress",
              metadata |-> [name |-> name,
                            annotations |-> annotations @@ ssl,
                            labels |-> Labels(name)],
              spec |-> [rules |-> <<[http |-> [paths |-> <<
                  [path |-> "/",
                   pathType |-> "Prefix",
                   backend |-> [service |->
                       [name |-> name,
                        port |-> [number |-> service_ports[1].port]]]]>>]]>>]]

\* variant: the ServiceAccount named apart from the workload
create_service_account_suffixed(td, name) ==
    IF "taskRoleArn" \notin DOMAIN td
    THEN None
    ELSE [apiVersion |-> "v1",
          kind |-> "ServiceAccount",
          metadata |-> [name |-> name \o "-sa",
                        annotations |->
                            ("eks.amazonaws.com/role-arn" :> td.taskRoleArn),
                        labels |-> Labels(name)]]

create_service_account(td, name) ==
    IF "taskRoleArn" \notin DOMAIN td
    THEN None
    ELSE [apiVersion |-> "v1",
          kind |-> "ServiceAccount",
          metadata |-> [name |-> name,
                        annotations |->
                            ("eks.amazonaws.com/role-arn" :> td.taskRoleArn),
                        labels |-> Labels(name)]]

create_hpa(name, min_replicas, max_replicas) ==
    [apiVersion |-> "autoscaling/v2",
     kind |-> "HorizontalPodAutoscaler",
     metadata |-> [name |-> name, labels |-> Labels(name)],
     spec |-> [scaleTargetRef |-> [apiVersion |-> "apps/v1",
                                   kind |-> "Deployment",
                                   name |-> name],
               minReplicas |-> min_replicas,
               maxReplicas |-> max_replicas,
               metrics |-> <<
                   [type |-> "Resource",
                    resource |-> [name |-> "cpu",
                                  target |-> [type |-> "Utilization",
                                              averageUtilization |-> 70]]],
                   [type |-> "Resource",
                    resource |-> [name |-> "memory",
                                  target |-> [type |-> "Utilization",
                                              averageUtilization |-> 80]]]>>]]

\* variant: max(a, b) in place of min(a, b)
larger(a, b) == IF b > a THEN b ELSE a

\* the built-in min(a, b)
min(a, b) == IF b < a THEN b ELSE a

-----------------------------------------------------------------------------
(* The input documents *)

\* every way of merging one choice from each of four sets of partial dicts
Merge4(A, B, C, D) == {a @@ b @@ c @@ d : a \in A, b \in B, c \in C, d \in D}

\* sequences of at most n elements of S
RECURSIVE SeqUpTo(_, _)
SeqUpTo(S, n) ==
    IF n = 0 THEN {<<>>}
    ELSE LET shorter == SeqUpTo(S, n - 1)
         IN  shorter \cup {Append(q, x) : q \in {r \in shorter : Len(r) = n - 1},
                                          x \in S}

PortMappingChoices ==
    {EmptyDict,
     [portMappings |-> <<>>],
     [portMappings |-> <<[containerPort |-> 8080]>>],
     [portMappings |-> <<[containerPort |-> 9090, protocol |-> "udp"],
                         [containerPort |-> 8080, protocol |-> "tcp"]>>],
     [portMappings |-> <<[protocol |-> "tcp"]>>]}

HealthCheckChoices ==
    {EmptyDict,
     [healthCheck |-> [interval |-> 10]],
     [healthCheck |-> [command |-> <<>>]],
     [healthCheck |-> [command |-> <<"CMD-SHELL", "curl -f http://localhost/">>,
                       retries |-> 5]]}

\* a container with a required field missing: conversion stops at the missing
\* key, before the ports or the health check are looked at
MissingFieldChoices ==
    {[image |-> "repo/api:1"],
     [name |-> "api"],
     EmptyDict}

\* containers that differ in structure, with one resource budget
StructuralContainers ==
    Merge4({[name |-> "api", image |-> "repo/api:1"]}, PortMappingChoices,
           HealthCheckChoices, {[cpu |-> 256, memory |-> 512]})
    \cup Merge4(MissingFieldChoices, {[portMappings |-> <<[containerPort |-> 8080]>>]},
                {[healthCheck |-> [interval |-> 10]]}, {[cpu |-> 256, memory |-> 512]})

\* well-formed containers that differ in their resource budget: every cpu
\* value with two memory choices, and every memory value with two cpu choices
ResourceContainers ==
    LET base == [name |-> "worker", image |-> "repo/worker:2",
                 command |-> <<"run">>, entryPoint |-> <<"/bin/worker">>,
                 environment |-> <<[name |-> "MODE", value |-> "prod"]>>,
                 secrets |-> <<[name |-> "TOKEN"]>>]
        cpus == {[cpu |-> c] : c \in 0..MaxCpuUnits}
        mems == {[memory |-> m] : m \in 0..MaxMemory}
    IN  Merge4({base}, cpus, {EmptyDict, [memory |-> 1024]}, {EmptyDict})
        \cup Merge4({base}, {EmptyDict, [cpu |-> 512]}, mems, {EmptyDict})

FamilyChoices == {EmptyDict, [family |-> "api"], [family |-> "web-app"]}

RoleChoices == {EmptyDict, [taskRoleArn |-> "arn:aws:iam::1:role/app"]}

DesiredCountChoices ==
    {EmptyDict} \cup {[desiredCount |-> n] : n \in 0..MaxDesiredCount}

LoadBalancerChoices ==
    {EmptyDict,
     [loadBalancers |-> <<>>],
     [loadBalancers |-> <<[targetGroupArn |-> "arn:tg"]>>],
     [loadBalancers |-> <<[certificateArn |-> "arn:cert"],
                          [targetGroupArn |-> "arn:tg"]>>]}

\* the pairs (task definition, service definition) a run may be started on
Inputs ==
    LET plain == [name |-> "api", image |-> "repo/api:1",
                  portMappings |-> <<[containerPort |-> 8080]>>]
        structural ==
            {[containerDefinitions |-> cs] : cs \in SeqUpTo(StructuralContainers,
                                                            MaxContainers)}
        budgets == {[containerDefinitions |-> <<c>>] : c \in ResourceContainers}
        tasks == Merge4({[containerDefinitions |-> <<plain>>]}, FamilyChoices,
                        RoleChoices, {EmptyDict})
        services == Merge4(DesiredCountChoices, LoadBalancerChoices,
                           {EmptyDict}, {EmptyDict})
    IN  (Merge4(structural, {[family |-> "api"]}, RoleChoices, {EmptyDict})
            \X {[desiredCount |-> 3, loadBalancers |-> <<[targetGroupArn |-> "arn:tg"]>>],
                EmptyDict})
        \cup (budgets \X {[desiredCount |-> 1]})
        \cup (tasks \X services)

-----------------------------------------------------------------------------
(* main() *)

Init ==
    /\ \E input \in Inputs : task_def = input[1] /\ service = input[2]
    /\ pc = "start"
    /\ app_name = ""
    /\ output_dir = FALSE
    /\ manifests = <<>>
    /\ files = <<>>
    /\ error = ""

\* variant: manifests.insert(0, (kind, manifest))
manifests_insert_first(list, kind, manifest) == <<<<kind, manifest>>>> \o list

\* manifests.append((kind, manifest))
manifests_append(list, kind, manifest) == Append(list, <<kind, manifest>>)

\* the name of the file written for one kind of manifest
filename(name, kind) == name \o "-" \o kind \o ".yaml"

\* app_name, the output directory and the empty list of manifests
Start ==
    /\ pc = "start"
    /\ app_name' = Get(task_def, "family", "cygni-app")
    /\ output_dir' = TRUE
    /\ manifests' = <<>>
    /\ pc' = "deployment"
    /\ UNCHANGED <<task_def, service, files, error>>

Deployment ==
    /\ pc = "deployment"
    /\ LET deployment == create_deployment(task_def, service, app_name)
       IN  IF IsRaised(deployment)
           THEN /\ error' = deployment.raised
                /\ pc' = "aborted"
                /\ UNCHANGED manifests
           ELSE /\ manifests' = manifests_append(manifests, "deployment", deployment)
                /\ pc' = "service"
                /\ UNCHANGED error
    /\ UNCHANGED <<task_def, service, app_name, output_dir, files>>

Service ==
    /\ pc = "service"
    /\ manifests' = manifests_append(manifests, "service",
                                     create_service(task_def, app_name))
    /\ pc' = "ingress"
    /\ UNCHANGED <<task_def, service, app_name, output_dir, files, error>>

Ingress ==
    /\ pc = "ingress"
    /\ LET service_manifest ==
               manifests[CHOOSE i \in 1..Len(manifests) : manifests[i][1] = "service"][2]
           ingress == create_ingress(service, app_name, service_manifest.spec.ports)
       IN  manifests' = IF ingress # None
                        THEN manifests_append(manifests, "ingress", ingress)
                        ELSE manifests
    /\ pc' = "serviceaccount"
    /\ UNCHANGED <<task_def, service, app_name, output_dir, files, error>>

ServiceAccount ==
    /\ pc = "serviceaccount"
    /\ LET service_account == create_service_account(task_def, app_name)
       IN  manifests' = IF service_account # None
                        THEN manifests_append(manifests, "serviceaccount",
                                              service_account)
                        ELSE manifests
    /\ pc' = "hpa"
    /\ UNCHANGED <<task_def, service, app_name, output_dir, files, error>>

HPA ==
    /\ pc = "hpa"
    /\ manifests' = manifests_append(manifests, "hpa",
           create_hpa(app_name,
                      Get(service, "desiredCount", 2),
                      min(Get(service, "desiredCount", 2) * 5, 50)))
    /\ pc' = "write"
    /\ UNCHANGED <<task_def, service, app_name, output_dir, files, error>>

\* one iteration of the loop that writes a file per manifest
WriteManifest ==
    /\ pc = "write"
    /\ LET i == Len(files) + 1
       IN  /\ files' = Append(files, [name |-> filename(app_name, manifests[i][1]),
                                      docs |-> <<manifests[i][2]>>])
           /\ pc' = IF i = Len(manifests) THEN "combined" ELSE "write"
    /\ UNCHANGED <<task_def, service, app_name, output_dir, manifests, error>>

\* the combined file: every manifest, in order, separated by "---"
WriteCombined ==
    /\ pc = "combined"
    /\ files' = Append(files, [name |-> filename(app_name, "all"),
                               docs |-> [i \in 1..Len(manifests) |-> manifests[i][2]]])
    /\ pc' = "done"
    /\ UNCHANGED <<task_def, service, app_name, output_dir, manifests, error>>

Next ==
    \/ Start
    \/ Deployment
    \/ Service
    \/ Ingress
    \/ ServiceAccount
    \/ HPA
    \/ WriteManifest
    \/ WriteCombined

Spec == Init /\ [][Next]_vars

-----------------------------------------------------------------------------
(* Vocabulary of the properties *)

\* main has collected every manifest of the run
Collected == pc \in {"write", "combined", "done"}

Kinds == [i \in 1..Len(manifests) |-> manifests[i][1]]

HasKind(kind) == \E i \in 1..Len(manifests) : manifests[i][1] = kind

ManifestOf(kind) ==
    manifests[CHOOSE i \in 1..Len(manifests) : manifests[i][1] = kind][2]

FileNames == {files[i].name : i \in 1..Len(files)}

HasLoadBalancer ==
    "loadBalancers" \in DOMAIN service /\ service.loadBalancers # <<>>

HasRole == "taskRoleArn" \in DOMAIN task_def

DesiredCount == IF "desiredCount" \in DOMAIN service THEN service.desiredCount ELSE 2

Definitions == task_def.containerDefinitions

\* the containers of the Deployment manifest, once it exists
BuiltContainers == ManifestOf("deployment").spec.template.spec.containers

\* a container without name or image, or a port mapping without containerPort
MissingRequiredField ==
    \E i \in 1..Len(Definitions) :
        \/ "name" \notin DOMAIN Definitions[i]
        \/ "image" \notin DOMAIN Definitions[i]
        \/ /\ "portMappings" \in DOMAIN Definitions[i]
           /\ \E j \in 1..Len(Definitions[i].portMappings) :
                 "containerPort" \notin DOMAIN Definitions[i].portMappings[j]

ExpectedKinds ==
    <<"deployment", "service">>
    \o (IF HasLoadBalancer THEN <<"ingress">> ELSE <<>>)
    \o (IF HasRole THEN <<"serviceaccount">> ELSE <<>>)
    \o <<"hpa">>

KubernetesKind(kind) ==
    CASE kind = "deployment" -> "Deployment"
      [] kind = "service" -> "Service"
      [] kind = "ingress" -> "Ingress"
      [] kind = "serviceaccount" -> "ServiceAccount"
      [] kind = "hpa" -> "HorizontalPodAutoscaler"

-----------------------------------------------------------------------------
(* C1: once the manifests are collected, an Ingress is among them exactly  *)
(* when the service's loadBalancers list is non-empty, and a               *)
(* ServiceAccount exactly when the task definition has a taskRoleArn; the  *)
(* same holds of the per-kind files of a finished run.                     *)
C1_ConditionalManifests ==
    /\ Collected =>
          /\ HasKind("ingress") <=> HasLoadBalancer
          /\ HasKind("serviceaccount") <=> HasRole
          /\ HasKind("ingress") => ManifestOf("ingress").kind = "Ingress"
          /\ HasKind("serviceaccount") =>
                ManifestOf("serviceaccount").kind = "ServiceAccount"
    /\ pc = "done" =>
          /\ filename(app_name, "ingress") \in FileNames <=> HasLoadBalancer
          /\ filename(app_name, "serviceaccount") \in FileNames <=> HasRole

\* the four combinations of the two conditional manifests, each a finished run
C1_IngressOnly ==
    pc = "done" /\ HasKind("ingress") /\ ~HasKind("serviceaccount")

C1_ServiceAccountOnly ==
    pc = "done" /\ ~HasKind("ingress") /\ HasKind("serviceaccount")

C1_IngressAndServiceAccount ==
    pc = "done" /\ HasKind("ingress") /\ HasKind("serviceaccount")

C1_NeitherConditional ==
    pc = "done" /\ ~HasKind("ingress") /\ ~HasKind("serviceaccount")

(* C2: the collected kinds are deployment, service, ingress if triggered,  *)
(* serviceaccount if triggered, hpa, in that order (and the list grows in  *)
(* that order); the per-kind files are written in that order and the       *)
(* combined file holds the same documents in that order.                   *)
C2_ManifestOrder ==
    /\ Len(Kinds) <= Len(ExpectedKinds)
    /\ Kinds = SubSeq(ExpectedKinds, 1, Len(Kinds))
    /\ Collected => Kinds = ExpectedKinds
    /\ \A i \in 1..Len(manifests) : manifests[i][2].kind = KubernetesKind(Kinds[i])
    /\ \A i \in 1..Len(files) :
          i <= Len(manifests) =>
              /\ files[i].name = filename(app_name, ExpectedKinds[i])
              /\ files[i].docs = <<manifests[i][2]>>
    /\ pc = "done" =>
          /\ Len(files) = Len(ExpectedKinds) + 1
          /\ LET all == files[Len(files)]
             IN  /\ all.name = filename(app_name, "all")
                 /\ Len(all.docs) = Len(ExpectedKinds)
                 /\ \A i \in 1..Len(all.docs) :
                       /\ all.docs[i].kind = KubernetesKind(ExpectedKinds[i])
                       /\ all.docs[i] = manifests[i][2]

C2_FiveManifestsWritten ==
    /\ pc = "done"
    /\ Kinds = <<"deployment", "service", "ingress", "serviceaccount", "hpa">>
    /\ Len(files) = 6

\* every value of a manifest that names the workload
WorkloadNames(kind, m) ==
    {m.metadata.name, m.metadata.labels.app}
    \cup (CASE kind = "deployment" ->
                 {m.spec.selector.matchLabels.app,
                  m.spec.template.metadata.labels.app}
                 \cup (IF "serviceAccountName" \in DOMAIN m.spec.template.spec
                       THEN {m.spec.template.spec.serviceAccountName} ELSE {})
            [] kind = "service" -> {m.spec.selector.app}
            [] kind = "ingress" ->
                 {m.spec.rules[1].http.paths[1].backend.service.name}
            [] kind = "hpa" -> {m.spec.scaleTargetRef.name}
            [] OTHER -> {})

(* C3: app_name is the task definition's family, or "cygni-app" when it    *)
(* has none, and every value naming the workload in every manifest is that *)
(* string; with a role, the Deployment's serviceAccountName is the name of *)
(* the ServiceAccount manifest.                                            *)
C3_SingleAppName ==
    /\ pc # "start" =>
          app_name = (IF "family" \in DOMAIN task_def THEN task_def.family
                      ELSE "cygni-app")
    /\ \A i \in 1..Len(manifests) :
          WorkloadNames(manifests[i][1], manifests[i][2]) = {app_name}
    /\ Collected =>
          /\ HasRole <=> "serviceAccountName"
                             \in DOMAIN ManifestOf("deployment").spec.template.spec
          /\ HasRole => ManifestOf("deployment").spec.template.spec.serviceAccountName
                            = ManifestOf("serviceaccount").metadata.name

C3_FallbackNameWithRole ==
    /\ pc = "done"
    /\ "family" \notin DOMAIN task_def
    /\ HasKind("ingress")
    /\ HasKind("serviceaccount")
    /\ ManifestOf("serviceaccount").metadata.name = "cygni-app"
    /\ ManifestOf("deployment").spec.template.spec.serviceAccountName = "cygni-app"

-----------------------------------------------------------------------------
(* Reading a quantity back from its string *)

LargestQuantity == IF MaxCpuUnits > MaxMemory THEN MaxCpuUnits ELSE MaxMemory

MillicoreStrings == {<<ToString(n) \o "m", n>> : n \in 0..LargestQuantity}

MebibyteStrings == {<<ToString(n) \o "Mi", n>> : n \in 0..LargestQuantity}

Millicores(s) == (CHOOSE p \in MillicoreStrings : p[1] = s)[2]

Mebibytes(s) == (CHOOSE p \in MebibyteStrings : p[1] = s)[2]

DeploymentBuilt == HasKind("deployment")

(* C4: in the Deployment, for every container and every dimension (cpu,    *)
(* memory) whose source value is a positive integer, the quantity under    *)
(* requests is at most the quantity under limits.                          *)
C4_RequestAtMostLimit ==
    DeploymentBuilt =>
        \A i \in 1..Len(Definitions) :
            LET resources == BuiltContainers[i].resources
            IN  /\ ("cpu" \in DOMAIN Definitions[i] /\ Definitions[i].cpu > 0) =>
                       Millicores(resources.requests.cpu)
                           <= Millicores(resources.limits.cpu)
                /\ ("memory" \in DOMAIN Definitions[i] /\ Definitions[i].memory > 0) =>
                       Mebibytes(resources.requests.memory)
                           <= Mebibytes(resources.limits.memory)

C4_StrictlySmallerRequests ==
    /\ DeploymentBuilt
    /\ \E i \in 1..Len(Definitions) :
          /\ "cpu" \in DOMAIN Definitions[i]
          /\ "memory" \in DOMAIN Definitions[i]
          /\ Definitions[i].cpu = 2048
          /\ Millicores(BuiltContainers[i].resources.requests.cpu) = 1599
          /\ Mebibytes(BuiltContainers[i].resources.requests.memory) = 819

\* the containers of scenario A: cpu=512 and memory=1024
ScenarioA(i) ==
    /\ "cpu" \in DOMAIN Definitions[i] /\ Definitions[i].cpu = 512
    /\ "memory" \in DOMAIN Definitions[i] /\ Definitions[i].memory = 1024

(* C5, as claimed: a container with cpu=512 and memory=1024 gets limits    *)
(* cpu "500m", memory "1024Mi" and requests cpu "400m", memory "819Mi".    *)
C5_ScenarioA_AsClaimed ==
    DeploymentBuilt =>
        \A i \in 1..Len(Definitions) :
            ScenarioA(i) =>
                BuiltContainers[i].resources =
                    [limits |-> [cpu |-> "500m", memory |-> "1024Mi"],
                     requests |-> [cpu |-> "400m", memory |-> "819Mi"]]

(* C5, amended: a container with cpu=512 and memory=1024 gets limits cpu   *)
(* "500m", memory "1024Mi" and requests cpu "399m", memory "819Mi".        *)
C5_ScenarioA ==
    DeploymentBuilt =>
        \A i \in 1..Len(Definitions) :
            ScenarioA(i) =>
                BuiltContainers[i].resources =
                    [limits |-> [cpu |-> "500m", memory |-> "1024Mi"],
                     requests |-> [cpu |-> "399m", memory |-> "819Mi"]]

C5_ScenarioAConverted ==
    /\ pc = "done"
    /\ \E i \in 1..Len(Definitions) :
          ScenarioA(i) /\ "resources" \in DOMAIN files[1].docs[1].spec.template.spec.containers[i]

\* the cpu conversion on the values the specification lists
CpuTable == [units \in {0, 256, 512, 1024, 2048} |->
                CASE units = 0 -> "0m"
                  [] units = 256 -> "250m"
                  [] units = 512 -> "500m"
                  [] units = 1024 -> "1000m"
                  [] units = 2048 -> "2000m"]

(* C6: the resources of every container are the reference: cpu limit       *)
(* floor(cpu*1000/1024) millicores, cpu request floor(floor(cpu*0.8)*1000  *)
(* /1024) millicores, memory limit the raw value and memory request        *)
(* floor(memory*0.8), both with "Mi"; request and limit of a dimension are *)
(* present exactly when the source field is; 0, 256, 512, 1024, 2048 units *)
(* give 0m, 250m, 500m, 1000m, 2000m.                                      *)
C6_ResourceReference ==
    DeploymentBuilt =>
        \A i \in 1..Len(Definitions) :
            LET c == Definitions[i]
                resources == BuiltContainers[i].resources
            IN  /\ DOMAIN resources = {"requests", "limits"}
                /\ DOMAIN resources.limits = DOMAIN c \cap {"cpu", "memory"}
                /\ DOMAIN resources.requests = DOMAIN c \cap {"cpu", "memory"}
                /\ "cpu" \in DOMAIN c =>
                      /\ resources.limits.cpu
                             = ToString((c.cpu * 1000) \div 1024) \o "m"
                      /\ resources.requests.cpu
                             = ToString((((c.cpu * 8) \div 10) * 1000) \div 1024) \o "m"
                      /\ c.cpu \in DOMAIN CpuTable =>
                             resources.limits.cpu = CpuTable[c.cpu]
                /\ "memory" \in DOMAIN c =>
                      /\ resources.limits.memory = ToString(c.memory) \o "Mi"
                      /\ resources.requests.memory
                             = ToString((c.memory * 8) \div 10) \o "Mi"

C6_TruncatedBeforeConversion ==
    /\ DeploymentBuilt
    /\ \E i \in 1..Len(Definitions) :
          /\ DOMAIN Definitions[i] \cap {"cpu", "memory"} = {"cpu"}
          /\ Definitions[i].cpu = 1024
          /\ BuiltContainers[i].resources
                 = [limits |-> [cpu |-> "1000m"], requests |-> [cpu |-> "799m"]]

-----------------------------------------------------------------------------
\* every per-kind file and the combined file of the run have been written
AllFilesWritten ==
    /\ Len(files) = Len(manifests) + 1
    /\ \A i \in 1..Len(manifests) :
          files[i].name = filename(app_name, manifests[i][1])
    /\ files[Len(files)].name = filename(app_name, "all")
    /\ {"deployment", "service", "hpa"} \subseteq {manifests[i][1] : i \in 1..Len(manifests)}

(* C7: a run on a container without name or image, or on a port mapping    *)
(* without containerPort, ends aborted with an error and writes no file;   *)
(* a run that has ended has written either every file of the set or none.  *)
C7_AllOrNothing ==
    /\ pc \in {"start", "deployment", "service", "ingress", "serviceaccount",
               "hpa", "write", "combined", "done", "aborted"}
    /\ (MissingRequiredField /\ pc \notin {"start", "deployment"}) =>
          pc = "aborted" /\ error \in {"KeyError", "IndexError"}
    /\ MissingRequiredField => files = <<>>
    /\ pc = "aborted" => files = <<>> /\ manifests = <<>> /\ error # ""
    /\ pc = "done" => AllFilesWritten /\ error = ""
    /\ pc \notin {"write", "combined", "done"} => files = <<>>

C7_AbortedOnSecondContainer ==
    /\ pc = "aborted"
    /\ Len(Definitions) = 2
    /\ {"name", "image"} \subseteq DOMAIN Definitions[1]
    /\ "image" \notin DOMAIN Definitions[2]
    /\ output_dir
    /\ files = <<>>

(* C8: the Autoscaler has minReplicas equal to the desired count (2 when   *)
(* desiredCount is absent) and maxReplicas equal to min(desiredCount*5,    *)
(* 50); desiredCount=3 gives 3 and 15; the Deployment's replicas equal the *)
(* desired count.                                                          *)
C8_ReplicaPolicy ==
    Collected =>
        LET hpa == ManifestOf("hpa").spec
        IN  /\ hpa.minReplicas = DesiredCount
            /\ hpa.maxReplicas = (IF DesiredCount * 5 <= 50 THEN DesiredCount * 5 ELSE 50)
            /\ "desiredCount" \notin DOMAIN service =>
                   hpa.minReplicas = 2 /\ hpa.maxReplicas = 10
            /\ DesiredCount = 3 => hpa.minReplicas = 3 /\ hpa.maxReplicas = 15
            /\ ManifestOf("deployment").spec.replicas = DesiredCount

C8_CappedAutoscaler ==
    /\ pc = "done"
    /\ "desiredCount" \in DOMAIN service
    /\ service.desiredCount = 11
    /\ ManifestOf("hpa").spec.maxReplicas = 50

(* C9: every container with a healthCheck gets a liveness probe whose path *)
(* is the first element of the command, or "/health" when the command is   *)
(* absent or empty, and whose port is the first mapping's containerPort,   *)
(* or 80 when portMappings is absent or empty; the conversion does not     *)
(* fail in any of these cases.                                             *)
C9_ProbeDefaults ==
    (~MissingRequiredField /\ pc \notin {"start", "deployment"}) =>
        /\ pc # "aborted"
        /\ \A i \in 1..Len(Definitions) :
              "healthCheck" \in DOMAIN Definitions[i] =>
                  LET c == Definitions[i]
                      probe == BuiltContainers[i].livenessProbe.httpGet
                  IN  /\ probe.path =
                             (IF "command" \in DOMAIN c.healthCheck
                                    /\ c.healthCheck.command # <<>>
                              THEN c.healthCheck.command[1] ELSE "/health")
                      /\ probe.port =
                             (IF "portMappings" \in DOMAIN c /\ c.portMappings # <<>>
                              THEN c.portMappings[1].containerPort ELSE 80)

(* C10: the Autoscaler has minReplicas <= maxReplicas and the Deployment's *)
(* replicas lie within [minReplicas, maxReplicas].                         *)
C10_ReplicasWithinAutoscalerRange ==
    Collected =>
        LET hpa == ManifestOf("hpa").spec
            replicas == ManifestOf("deployment").spec.replicas
        IN  /\ hpa.minReplicas <= hpa.maxReplicas
            /\ hpa.minReplicas <= replicas
            /\ replicas <= hpa.maxReplicas

=============================================================================
